---- MODULE Spec2Model ----
(***************************************************************************)
(* Model of p5-api-reverse-engineering/scripts/test-upload.py: the         *)
(* P5APIClient class (constructor, request wrapper, six API operations),   *)
(* validate_config, main and run_tests.                                    *)
(*                                                                         *)
(* Python strings whose characters matter (credentials) are sequences of   *)
(* Unicode code points; None is the sentinel <<-1>>, which no string       *)
(* equals.  Other strings (header names, log tags, ids) are TLA+ strings.  *)
(* The network is the environment: every HTTP call receives an outcome     *)
(* drawn from a finite set of responses and transport failures.            *)
(***************************************************************************)
EXTENDS Integers, Sequences, FiniteSets, TLC

VARIABLES cfg, args, client, pc, trace, last, project, steps, exit

vars == <<cfg, args, client, pc, trace, last, project, steps, exit>>

(***************************************************************************)
(* Bounds of the model.                                                    *)
(***************************************************************************)
\* longest sketch list the server returns to a direct call of
\* list_user_sketches
MaxSketches == 6

\* longest sketch list the server returns during a run of the test sequence
MaxRunSketches == 1

(***************************************************************************)
(* Python values.                                                          *)
(***************************************************************************)
None == <<-1>>

\* truthiness of an Optional[str]: None and "" are falsy
Truthy(s) == s # None /\ s # <<>>

PyTrue == "True"
PyFalse == "False"
PyNone == "None"

(***************************************************************************)
(* Configuration constants (module level of the script).                   *)
(***************************************************************************)
\* "YOUR_SESSION_COOKIE_HERE"
SESSION_COOKIE_PLACEHOLDER ==
  <<89, 79, 85, 82, 95, 83, 69, 83, 83, 73, 79, 78, 95, 67, 79, 79, 75, 73,
    69, 95, 72, 69, 82, 69>>

\* "your_username"
USERNAME_PLACEHOLDER ==
  <<121, 111, 117, 114, 95, 117, 115, 101, 114, 110, 97, 109, 101>>

\* "your_personal_access_token"
ACCESS_TOKEN_PLACEHOLDER ==
  <<121, 111, 117, 114, 95, 112, 101, 114, 115, 111, 110, 97, 108, 95, 97,
    99, 99, 101, 115, 115, 95, 116, 111, 107, 101, 110>>

API_BASE_URL == "https://editor.p5js.org/api"

(***************************************************************************)
(* str.encode('utf-8') and base64.b64encode.                               *)
(***************************************************************************)
\* UTF-8 bytes of one code point (up to U+FFFF)
utf8_char(cp) ==
  IF cp < 128 THEN <<cp>>
  ELSE IF cp < 2048 THEN <<192 + (cp \div 64), 128 + (cp % 64)>>
  ELSE <<224 + (cp \div 4096), 128 + ((cp \div 64) % 64), 128 + (cp % 64)>>

RECURSIVE encode_utf8(_)
encode_utf8(s) ==
  IF s = <<>> THEN <<>> ELSE utf8_char(Head(s)) \o encode_utf8(Tail(s))

\* the base64 alphabet: A-Z a-z 0-9 + /
b64_char(i) ==
  IF i < 26 THEN 65 + i
  ELSE IF i < 52 THEN 97 + (i - 26)
  ELSE IF i < 62 THEN 48 + (i - 52)
  ELSE IF i = 62 THEN 43 ELSE 47

B64_PAD == 61

RECURSIVE b64encode(_)
b64encode(bs) ==
  IF Len(bs) = 0 THEN <<>>
  ELSE IF Len(bs) = 1 THEN
    <<b64_char(bs[1] \div 4), b64_char((bs[1] % 4) * 16), B64_PAD, B64_PAD>>
  ELSE IF Len(bs) = 2 THEN
    <<b64_char(bs[1] \div 4),
      b64_char((bs[1] % 4) * 16 + (bs[2] \div 16)),
      b64_char((bs[2] % 16) * 4), B64_PAD>>
  ELSE
    <<b64_char(bs[1] \div 4),
      b64_char((bs[1] % 4) * 16 + (bs[2] \div 16)),
      b64_char((bs[2] % 16) * 4 + (bs[3] \div 64)),
      b64_char(bs[3] % 64)>> \o b64encode(SubSeq(bs, 4, Len(bs)))

\* f"{username}:{access_token}"
auth_string_swapped(username, access_token) == access_token \o <<58>> \o username

auth_string(username, access_token) == username \o <<58>> \o access_token

\* "Basic "
BASIC_PREFIX == <<66, 97, 115, 105, 99, 32>>

\* f'Basic {auth_b64}'; the base64 text is ASCII, so .decode('utf-8') maps
\* each byte to the code point of the same value
authorization_header(username, access_token) ==
  BASIC_PREFIX \o b64encode(encode_utf8(auth_string(username, access_token)))

(***************************************************************************)
(* P5APIClient.__init__                                                    *)
(***************************************************************************)
\* headers of a fresh requests.Session()
SessionDefaultHeaders ==
  [n \in {"User-Agent", "Accept-Encoding", "Accept", "Connection"} |->
     CASE n = "User-Agent" -> "python-requests"
       [] n = "Accept-Encoding" -> "gzip, deflate"
       [] n = "Accept" -> "*/*"
       [] n = "Connection" -> "keep-alive"]

\* dict.update: entries of upd replace or extend those of h
headers_update(h, upd) ==
  [n \in DOMAIN h \cup DOMAIN upd |-> IF n \in DOMAIN upd THEN upd[n] ELSE h[n]]

ClientDefaultHeaders ==
  [n \in {"Content-Type", "User-Agent"} |->
     IF n = "Content-Type" THEN "application/json"
     ELSE "p5-api-test-client-python/1.0"]

\* the branch of the authentication setup that is taken
auth_mode_or(session_cookie, username, access_token) ==
  IF Truthy(access_token) \/ Truthy(username) THEN "token"
  ELSE IF Truthy(session_cookie) THEN "cookie"
  ELSE "none"

auth_mode(session_cookie, username, access_token) ==
  IF Truthy(access_token) /\ Truthy(username) THEN "token"
  ELSE IF Truthy(session_cookie) THEN "cookie"
  ELSE "none"

NoClient == [constructed |-> FALSE, headers |-> <<>>, cookies |-> {}]

\* the client object after construction
P5APIClient(session_cookie, username, access_token) ==
  LET mode == auth_mode(session_cookie, username, access_token)
      base == headers_update(SessionDefaultHeaders, ClientDefaultHeaders)
  IN [constructed |-> TRUE,
      headers |->
        IF mode = "token"
        THEN headers_update(base,
               [n \in {"Authorization"} |->
                  authorization_header(username, access_token)])
        ELSE base,
      cookies |->
        IF mode = "cookie"
        THEN {[name |-> "connect.sid", value |-> session_cookie,
               domain |-> "editor.p5js.org"]}
        ELSE {}]

\* the line the constructor prints
init_print(session_cookie, username, access_token) ==
  LET mode == auth_mode(session_cookie, username, access_token)
  IN [k |-> "print", tag |-> "info",
      text |-> CASE mode = "token" -> "Using Token Authentication"
                 [] mode = "cookie" -> "Using Session Cookie Authentication"
                 [] OTHER -> "No authentication configured"]

(***************************************************************************)
(* JSON values and HTTP outcomes supplied by the server.                   *)
(***************************************************************************)
\* a JSON value: a string, null, an empty object, or an object whose only
\* member is "username" (v holds it)
JStr(v) == [t |-> "str", v |-> v]
JNull == [t |-> "null", v |-> ""]
JEmptyDict == [t |-> "emptydict", v |-> ""]
JUser(v) == [t |-> "dict", v |-> v]

\* bool(x) of a JSON value
JTruthy(j) == j.t = "dict" \/ (j.t = "str" /\ j.v # "")

\* isinstance(x, dict)
JIsDict(j) == j.t \in {"dict", "emptydict"}

\* str(x) as an f-string renders it
fstr(j) ==
  IF j.t = "null" THEN "None"
  ELSE IF j.t = "emptydict" THEN "{}"
  ELSE IF j.t = "dict" THEN "{'username': ...}"
  ELSE j.v

\* dict.get(key, default)
dict_get(d, key, default) == IF key \in DOMAIN d THEN d[key] ELSE default

BodyInvalid == [kind |-> "invalid", val |-> <<>>]
BodyDict(d) == [kind |-> "dict", val |-> d]
BodyList(l) == [kind |-> "list", val |-> l]

\* project records a server may answer with
ProjectDicts ==
  { [id |-> JStr("p1"), name |-> JStr("Test Sketch"), owner |-> JUser("al")],
    [id |-> JStr("p2"), name |-> JStr("Other"), user |-> JStr("bob")],
    [id |-> JNull, name |-> JStr("Test Sketch")],
    [name |-> JStr("Test Sketch"), owner |-> JEmptyDict] }

ProjectBodies ==
  {BodyInvalid, BodyList(<<>>)} \cup {BodyDict(d) : d \in ProjectDicts}

\* sketch summaries of the listing endpoint
SketchEntries ==
  { [name |-> "s1", id |-> "p1", updatedAt |-> "t1"],
    [name |-> "s2", id |-> "p2", updatedAt |-> "t2"],
    [name |-> "s3", id |-> "p3"] }

SeqsUpTo(S, n) == UNION {[1..m -> S] : m \in 0..n}

ListBodies(n) ==
  {BodyInvalid, BodyDict([name |-> JStr("x")])}
    \cup {BodyList(l) : l \in SeqsUpTo(SketchEntries, n)}

Statuses == {200, 201, 304, 401, 404, 500}

Reason(status) ==
  CASE status = 200 -> "OK"
    [] status = 201 -> "Created"
    [] status = 304 -> "Not Modified"
    [] status = 401 -> "Unauthorized"
    [] status = 404 -> "Not Found"
    [] status = 500 -> "Internal Server Error"

\* what a dispatched request comes back with: a response, or a transport
\* failure raised by the HTTP library
Responses(bodies) ==
  {[ok |-> TRUE, exc |-> "", status |-> s, reason |-> Reason(s), body |-> b] :
     s \in Statuses, b \in bodies}

TransportFailures ==
  {[ok |-> FALSE, exc |-> "ConnectionError", status |-> 0, reason |-> "",
    body |-> BodyInvalid]}

Outcomes(bodies) == Responses(bodies) \cup TransportFailures

(***************************************************************************)
(* Exceptions and results of a call.                                       *)
(***************************************************************************)
Return(v) ==
  [kind |-> "return", exc |-> "", status |-> 0, reason |-> "", value |-> v]

Raise(exc, status, reason) ==
  [kind |-> "raise", exc |-> exc, status |-> status, reason |-> reason,
   value |-> PyNone]

\* subclasses of requests.exceptions.RequestException
IsRequestException(exc) ==
  exc \in {"ConnectionError", "HTTPError", "JSONDecodeError"}

IsHTTPError(exc) == exc = "HTTPError"

\* subclasses of Exception (SystemExit and KeyboardInterrupt are not)
IsException(exc) ==
  exc \in {"ConnectionError", "HTTPError", "JSONDecodeError", "KeyError",
           "AttributeError", "TypeError"}

\* Response.raise_for_status(): raises HTTPError for 4xx and 5xx
raises_for_status_never(response) == FALSE

raises_for_status(response) == 400 <= response.status /\ response.status < 600

\* Response.json() raises on a body that is not JSON
json_raises(response) == response.body.kind = "invalid"

(***************************************************************************)
(* Console lines and dispatched requests, in program order.                *)
(***************************************************************************)
Info(text, data) == [k |-> "print", tag |-> "info", text |-> text, data |-> data]

Progress(method, endpoint) ==
  [k |-> "print", tag |-> "progress", method |-> method, endpoint |-> endpoint]

OutcomeLine(status, reason) ==
  [k |-> "print", tag |-> "outcome", status |-> status, reason |-> reason]

FailedLine(exc) == [k |-> "print", tag |-> "failed", exc |-> exc]

Send(via, method, endpoint, url, headers, cookies, payload) ==
  [k |-> "send", via |-> via, method |-> method, endpoint |-> endpoint,
   url |-> url, headers |-> headers, cookies |-> cookies, payload |-> payload]

\* str.upper() on the method names the script uses
upper(method) ==
  CASE method \in {"get", "GET"} -> "GET"
    [] method \in {"post", "POST"} -> "POST"
    [] method \in {"put", "PUT"} -> "PUT"
    [] method \in {"delete", "DELETE"} -> "DELETE"

NoPayload == "none"

(***************************************************************************)
(* P5APIClient._request                                                    *)
(***************************************************************************)
_request(c, method, endpoint, payload, net) ==
  LET url == <<API_BASE_URL>> \o endpoint
      before == <<Progress(upper(method), endpoint),
                  Send("session", method, endpoint, url, c.headers, c.cookies,
                       payload)>>
  IN IF net.ok
     THEN [trace |-> before \o <<OutcomeLine(net.status, net.reason)>>,
           raised |-> FALSE, exc |-> "", response |-> net]
     ELSE IF IsRequestException(net.exc)
     THEN [trace |-> before \o <<FailedLine(net.exc)>>,
           raised |-> TRUE, exc |-> net.exc, response |-> net]
     ELSE [trace |-> before, raised |-> TRUE, exc |-> net.exc,
           response |-> net]

(***************************************************************************)
(* P5APIClient.test_authentication                                         *)
(***************************************************************************)
test_authentication(c, net) ==
  LET r == _request(c, "GET", <<"/auth/access-check">>, NoPayload, net)
      pre == <<Info("Testing Authentication...", <<>>)>> \o r.trace
  IN IF ~r.raised
     THEN IF r.response.status = 200
          THEN [trace |-> pre \o <<Info("Authentication successful!", <<>>)>>,
                result |-> Return(PyTrue)]
          ELSE [trace |-> pre \o <<Info("Authentication failed", <<>>)>>,
                result |-> Return(PyFalse)]
     ELSE IF IsHTTPError(r.exc)
     THEN IF r.response.status = 404
          THEN [trace |-> pre \o
                  <<Info("Test endpoint not found (this is okay)", <<>>)>>,
                result |-> Return(PyNone)]
          ELSE [trace |-> pre \o <<Info("Authentication failed", <<>>)>>,
                result |-> Return(PyFalse)]
     ELSE [trace |-> pre, result |-> Raise(r.exc, 0, "")]

(***************************************************************************)
(* Sketch templates.                                                       *)
(***************************************************************************)
TEMPLATE_BASIC ==
  [name |-> "Test Sketch - Basic (Python)",
   files |-> <<"sketch.js", "index.html">>]

TEMPLATE_ANIMATION ==
  [name |-> "Test Sketch - Animation (Python)",
   files |-> <<"sketch.js", "index.html">>]

(***************************************************************************)
(* P5APIClient.create_sketch                                               *)
(***************************************************************************)
\* the name create_sketch prints as Owner and puts into the sketch URL
owner_username(proj) ==
  LET first == dict_get(proj, "owner", JNull)
      owner == IF JTruthy(first) THEN first
               ELSE dict_get(proj, "user", JEmptyDict)
  IN IF JIsDict(owner)
     THEN (IF owner.t = "dict" THEN owner.v ELSE "None")
     ELSE fstr(owner)

create_sketch(c, sketch_data, net) ==
  LET r == _request(c, "POST", <<"/projects">>, sketch_data, net)
      pre == <<Info("Creating sketch", <<sketch_data.name>>)>> \o r.trace
      proj == r.response.body.val
  IN IF r.raised THEN [trace |-> pre, result |-> Raise(r.exc, 0, "")]
     ELSE IF raises_for_status(r.response)
     THEN [trace |-> pre,
           result |-> Raise("HTTPError", r.response.status, r.response.reason)]
     ELSE IF json_raises(r.response)
     THEN [trace |-> pre, result |-> Raise("JSONDecodeError", 0, "")]
     ELSE IF r.response.body.kind # "dict"
     THEN [trace |-> pre \o <<Info("Sketch created successfully!", <<>>),
                              Info("Project Details:", <<>>)>>,
           result |-> Raise("AttributeError", 0, "")]
     ELSE LET details ==
                <<Info("Sketch created successfully!", <<>>),
                  Info("Project Details:", <<>>),
                  Info("ID", <<fstr(dict_get(proj, "id", JNull))>>),
                  Info("Name", <<fstr(dict_get(proj, "name", JNull))>>),
                  Info("Owner", <<owner_username(proj)>>),
                  Info("Created", <<fstr(dict_get(proj, "createdAt", JNull))>>)>>
          IN IF "id" \notin DOMAIN proj
             THEN [trace |-> pre \o details, result |-> Raise("KeyError", 0, "")]
             ELSE [trace |-> pre \o details \o
                     <<Info("Sketch URL", <<owner_username(proj), fstr(proj.id)>>),
                       Info("Full View", <<owner_username(proj), fstr(proj.id)>>)>>,
                   result |-> Return(proj)]

(***************************************************************************)
(* P5APIClient.get_project                                                 *)
(***************************************************************************)
get_project(c, project_id, net) ==
  LET r == _request(c, "GET", <<"/projects/", fstr(project_id)>>, NoPayload, net)
      pre == <<Info("Fetching project", <<fstr(project_id)>>)>> \o r.trace
  IN IF r.raised THEN [trace |-> pre, result |-> Raise(r.exc, 0, "")]
     ELSE IF raises_for_status(r.response)
     THEN [trace |-> pre,
           result |-> Raise("HTTPError", r.response.status, r.response.reason)]
     ELSE IF json_raises(r.response)
     THEN [trace |-> pre \o <<Info("Project fetched successfully", <<>>)>>,
           result |-> Raise("JSONDecodeError", 0, "")]
     ELSE [trace |-> pre \o <<Info("Project fetched successfully", <<>>)>>,
           result |-> Return(r.response.body.val)]

(***************************************************************************)
(* P5APIClient.update_sketch                                               *)
(***************************************************************************)
update_sketch(c, project_id, updates, net) ==
  LET r == _request(c, "PUT", <<"/projects/", fstr(project_id)>>, updates, net)
      pre == <<Info("Updating sketch", <<fstr(project_id)>>)>> \o r.trace
  IN IF r.raised THEN [trace |-> pre, result |-> Raise(r.exc, 0, "")]
     ELSE IF raises_for_status(r.response)
     THEN [trace |-> pre,
           result |-> Raise("HTTPError", r.response.status, r.response.reason)]
     ELSE IF json_raises(r.response)
     THEN [trace |-> pre \o <<Info("Sketch updated successfully", <<>>)>>,
           result |-> Raise("JSONDecodeError", 0, "")]
     ELSE [trace |-> pre \o <<Info("Sketch updated successfully", <<>>)>>,
           result |-> Return(r.response.body.val)]

(***************************************************************************)
(* P5APIClient.delete_sketch                                               *)
(***************************************************************************)
delete_sketch(c, project_id, net) ==
  LET r == _request(c, "DELETE", <<"/projects/", fstr(project_id)>>, NoPayload,
                   net)
      pre == <<Info("Deleting sketch", <<fstr(project_id)>>)>> \o r.trace
  IN IF r.raised THEN [trace |-> pre, result |-> Raise(r.exc, 0, "")]
     ELSE IF raises_for_status(r.response)
     THEN [trace |-> pre,
           result |-> Raise("HTTPError", r.response.status, r.response.reason)]
     ELSE [trace |-> pre \o <<Info("Sketch deleted successfully", <<>>)>>,
           result |-> Return(PyTrue)]

(***************************************************************************)
(* P5APIClient.list_user_sketches                                          *)
(***************************************************************************)
Min(a, b) == IF a < b THEN a ELSE b

\* sketches[:5]
first_five(sketches) == SubSeq(sketches, 1, Min(5, Len(sketches)))

\* the display loop over sketches[:5]: the lines printed, and whether a
\* missing key stopped it
RECURSIVE display(_, _)
display(shown, i) ==
  IF i > Len(shown) THEN [trace |-> <<>>, raised |-> FALSE]
  ELSE LET e == shown[i] IN
    IF "name" \notin DOMAIN e THEN [trace |-> <<>>, raised |-> TRUE]
    ELSE IF "id" \notin DOMAIN e
    THEN [trace |-> <<Info("entry name", <<i, e.name>>)>>, raised |-> TRUE]
    ELSE IF "updatedAt" \notin DOMAIN e
    THEN [trace |-> <<Info("entry name", <<i, e.name>>),
                      Info("entry ID", <<e.id>>)>>, raised |-> TRUE]
    ELSE LET rest == display(shown, i + 1)
         IN [trace |-> <<Info("entry name", <<i, e.name>>),
                         Info("entry ID", <<e.id>>),
                         Info("entry Updated", <<e.updatedAt>>)>> \o rest.trace,
             raised |-> rest.raised]

list_user_sketches_first_five(c, username, net) ==
  LET url == <<API_BASE_URL, "/", username, "/sketches">>
      pre == <<Info("Listing sketches for user", <<username>>),
               Send("requests.get", "GET", <<"/", username, "/sketches">>, url,
                    SessionDefaultHeaders, {}, NoPayload)>>
      sketches == first_five(net.body.val)
  IN IF ~net.ok THEN [trace |-> pre, result |-> Raise(net.exc, 0, "")]
     ELSE IF raises_for_status(net)
     THEN [trace |-> pre, result |-> Raise("HTTPError", net.status, net.reason)]
     ELSE IF json_raises(net)
     THEN [trace |-> pre, result |-> Raise("JSONDecodeError", 0, "")]
     ELSE IF net.body.kind # "list"
     THEN [trace |-> pre \o <<Info("Found sketches", <<1>>)>>,
           result |-> Raise("TypeError", 0, "")]
     ELSE LET d == display(first_five(sketches), 1)
              found == <<Info("Found sketches", <<Len(sketches)>>)>>
          IN IF d.raised
             THEN [trace |-> pre \o found \o d.trace,
                   result |-> Raise("KeyError", 0, "")]
             ELSE [trace |-> pre \o found \o d.trace \o
                     (IF Len(sketches) > 5
                      THEN <<Info("... and more", <<Len(sketches) - 5>>)>>
                      ELSE <<>>),
                   result |-> Return(sketches)]

\* the request goes out through requests.get, not through the session: it
\* carries neither the client's headers nor its cookie, and _request does
\* not frame it
list_user_sketches(c, username, net) ==
  LET url == <<API_BASE_URL, "/", username, "/sketches">>
      pre == <<Info("Listing sketches for user", <<username>>),
               Send("requests.get", "GET", <<"/", username, "/sketches">>, url,
                    SessionDefaultHeaders, {}, NoPayload)>>
      sketches == net.body.val
  IN IF ~net.ok THEN [trace |-> pre, result |-> Raise(net.exc, 0, "")]
     ELSE IF raises_for_status(net)
     THEN [trace |-> pre, result |-> Raise("HTTPError", net.status, net.reason)]
     ELSE IF json_raises(net)
     THEN [trace |-> pre, result |-> Raise("JSONDecodeError", 0, "")]
     ELSE IF net.body.kind # "list"
     THEN [trace |-> pre \o <<Info("Found sketches", <<1>>)>>,
           result |-> Raise("TypeError", 0, "")]
     ELSE LET d == display(first_five(sketches), 1)
              found == <<Info("Found sketches", <<Len(sketches)>>)>>
          IN IF d.raised
             THEN [trace |-> pre \o found \o d.trace,
                   result |-> Raise("KeyError", 0, "")]
             ELSE [trace |-> pre \o found \o d.trace \o
                     (IF Len(sketches) > 5
                      THEN <<Info("... and more", <<Len(sketches) - 5>>)>>
                      ELSE <<>>),
                   result |-> Return(sketches)]

(***************************************************************************)
(* validate_config                                                         *)
(***************************************************************************)
\* TRUE when validate_config calls sys.exit(1)
validate_config_exits_and(c) ==
  \/ ~c.USE_TOKEN_AUTH /\ c.SESSION_COOKIE = SESSION_COOKIE_PLACEHOLDER
  \/ c.USE_TOKEN_AUTH /\ (c.USERNAME = USERNAME_PLACEHOLDER
                            /\ c.ACCESS_TOKEN = ACCESS_TOKEN_PLACEHOLDER)

validate_config_exits(c) ==
  \/ ~c.USE_TOKEN_AUTH /\ c.SESSION_COOKIE = SESSION_COOKIE_PLACEHOLDER
  \/ c.USE_TOKEN_AUTH /\ (c.USERNAME = USERNAME_PLACEHOLDER
                            \/ c.ACCESS_TOKEN = ACCESS_TOKEN_PLACEHOLDER)

validate_config_prints(c) ==
  <<Info("Validating configuration...", <<>>)>> \o
  (IF ~c.USE_TOKEN_AUTH /\ c.SESSION_COOKIE = SESSION_COOKIE_PLACEHOLDER
   THEN <<Info("ERROR: SESSION_COOKIE not configured!", <<>>)>>
   ELSE IF validate_config_exits(c)
   THEN <<Info("ERROR: Token credentials not configured!", <<>>)>>
   ELSE <<Info("Configuration valid", <<>>)>>)

(***************************************************************************)
(* main                                                                    *)
(***************************************************************************)
\* the constructor arguments main passes (the others default to None)
main_args(c) ==
  IF c.USE_TOKEN_AUTH
  THEN [session_cookie |-> None, username |-> c.USERNAME,
        access_token |-> c.ACCESS_TOKEN]
  ELSE [session_cookie |-> c.SESSION_COOKIE, username |-> None,
        access_token |-> None]

(***************************************************************************)
(* run_tests                                                               *)
(***************************************************************************)
\* the step run_tests takes after a step returned
next_step(c, op) ==
  CASE op = "test_authentication" -> "create_sketch"
    [] op = "create_sketch" -> "get_project"
    [] op = "get_project" -> "update_sketch"
    [] op = "update_sketch" ->
         IF c.USERNAME # USERNAME_PLACEHOLDER THEN "list_user_sketches"
         ELSE "done"
    [] op = "list_user_sketches" -> "done"

\* try/except of run_tests applied to the result of step op: where the
\* program goes, what it prints and the exit status, if it exits
after_step_swallow(c, op, result) ==
  IF next_step(c, op) = "done"
  THEN [pc |-> "exited", exit |-> <<0>>,
        trace |-> <<Info("All tests completed successfully!", <<>>)>>]
  ELSE [pc |-> next_step(c, op), exit |-> <<>>, trace |-> <<>>]

after_step_abort_on_auth_failure(c, op, result) ==
  IF (result.kind = "raise" /\ IsException(result.exc))
       \/ (op = "test_authentication" /\ result.value # PyTrue)
  THEN [pc |-> "exited", exit |-> <<1>>,
        trace |-> <<Info("Tests failed", <<>>)>>]
  ELSE IF next_step(c, op) = "done"
  THEN [pc |-> "exited", exit |-> <<0>>,
        trace |-> <<Info("All tests completed successfully!", <<>>)>>]
  ELSE [pc |-> next_step(c, op), exit |-> <<>>, trace |-> <<>>]

after_step(c, op, result) ==
  IF result.kind = "raise" /\ IsException(result.exc)
  THEN [pc |-> "exited", exit |-> <<1>>,
        trace |-> <<Info("Tests failed", <<>>),
                    Info("Error details",
                         <<result.exc, result.status, result.reason>>)>>]
  ELSE IF result.kind = "raise"
  THEN \* not an Exception: the handler does not catch it and the
       \* interpreter ends the process
       [pc |-> "exited", exit |-> <<1>>, trace |-> <<>>]
  ELSE IF next_step(c, op) = "done"
  THEN [pc |-> "exited", exit |-> <<0>>,
        trace |-> <<Info("All tests completed successfully!", <<>>)>>]
  ELSE [pc |-> next_step(c, op), exit |-> <<>>, trace |-> <<>>]

\* the updates run_tests sends
run_updates ==
  [name |-> "Test Sketch - Updated (Python)", files |-> TEMPLATE_ANIMATION.files]

\* the dictionary get_project returns is dropped: run_tests keeps the
\* project create_sketch returned
project_after_get_fetched(proj, fetched) ==
  IF fetched.kind = "return" /\ "id" \in DOMAIN fetched.value
  THEN fetched.value ELSE proj

project_after_get(proj, fetched) == proj

(***************************************************************************)
(* The program: main() run under one configuration.                        *)
(***************************************************************************)
Configs ==
  [USE_TOKEN_AUTH : BOOLEAN,
   SESSION_COOKIE : {SESSION_COOKIE_PLACEHOLDER, <<>>, <<115, 37, 51, 65>>},
   USERNAME : {USERNAME_PLACEHOLDER, <<97, 108>>},
   ACCESS_TOKEN : {ACCESS_TOKEN_PLACEHOLDER, <<116, 107>>}]

NoArgs == [session_cookie |-> None, username |-> None, access_token |-> None]
NoCall == [op |-> "none"]
NoProject == [none |-> JNull]

Init ==
  /\ cfg \in Configs
  /\ args = NoArgs
  /\ client = NoClient
  /\ pc = "main"
  /\ trace = <<>>
  /\ last = NoCall
  /\ project = NoProject
  /\ steps = <<>>
  /\ exit = <<>>

ValidateConfig ==
  /\ pc = "main"
  /\ trace' = trace \o validate_config_prints(cfg)
  /\ IF validate_config_exits(cfg)
     THEN pc' = "exited" /\ exit' = <<1>>
     ELSE pc' = "construct" /\ exit' = exit
  /\ UNCHANGED <<cfg, args, client, last, project, steps>>

Construct ==
  /\ pc = "construct"
  /\ args' = main_args(cfg)
  /\ client' = P5APIClient(args'.session_cookie, args'.username,
                           args'.access_token)
  /\ trace' = trace \o
       <<init_print(args'.session_cookie, args'.username, args'.access_token),
         Info("p5.js Web Editor API - Upload Test Suite (Python)", <<>>)>>
  /\ pc' = "test_authentication"
  /\ UNCHANGED <<cfg, last, project, steps, exit>>

\* bookkeeping shared by the steps of run_tests
Step(op, arg, net, o) ==
  LET a == after_step(cfg, op, o.result)
  IN /\ trace' = trace \o o.trace \o a.trace
     /\ last' = [op |-> op, arg |-> arg, net |-> net, result |-> o.result]
     /\ steps' = Append(steps, [op |-> op, raised |-> o.result.kind = "raise"])
     /\ pc' = a.pc
     /\ exit' = a.exit
     /\ UNCHANGED <<cfg, args, client>>

RunTestAuthentication ==
  /\ pc = "test_authentication"
  /\ \E net \in Outcomes({BodyInvalid}) :
       Step("test_authentication", <<>>, net, test_authentication(client, net))
  /\ UNCHANGED project

RunCreateSketch ==
  /\ pc = "create_sketch"
  /\ \E net \in Outcomes(ProjectBodies) :
       LET o == create_sketch(client, TEMPLATE_BASIC, net)
       IN /\ Step("create_sketch", TEMPLATE_BASIC, net, o)
          /\ project' = IF o.result.kind = "return" THEN o.result.value
                        ELSE project

RunGetProject ==
  /\ pc = "get_project"
  /\ \E net \in Outcomes(ProjectBodies) :
       LET o == get_project(client, project.id, net)
       IN /\ Step("get_project", project.id, net, o)
          /\ project' = project_after_get(project, o.result)

RunUpdateSketch ==
  /\ pc = "update_sketch"
  /\ \E net \in Outcomes(ProjectBodies) :
       Step("update_sketch", project.id, net,
            update_sketch(client, project.id, run_updates, net))
  /\ UNCHANGED project

RunListUserSketches ==
  /\ pc = "list_user_sketches"
  /\ \E net \in Outcomes(ListBodies(MaxRunSketches)) :
       Step("list_user_sketches", cfg.USERNAME, net,
            list_user_sketches(client, cfg.USERNAME, net))
  /\ UNCHANGED project

Next ==
  \/ ValidateConfig
  \/ Construct
  \/ RunTestAuthentication
  \/ RunCreateSketch
  \/ RunGetProject
  \/ RunUpdateSketch
  \/ RunListUserSketches

Spec == Init /\ [][Next]_vars

(***************************************************************************)
(* The client on its own: constructed from any arguments, then called in   *)
(* any order.  trace holds the output of the constructor or of the call in *)
(* progress; the caller takes the result before it calls again.            *)
(***************************************************************************)
\* session cookies: None, "", "s%3A"
CookieArgs == {None, <<>>, <<115, 37, 51, 65>>}

\* usernames: None, "", "a", "al", "é"
UsernameArgs == {None, <<>>, <<97>>, <<97, 108>>, <<233>>}

\* access tokens: None, "", "t", "tk"
TokenArgs == {None, <<>>, <<116>>, <<116, 107>>}

ProjectIds == {JStr("p1"), JNull}

InitClient ==
  /\ cfg = [USE_TOKEN_AUTH |-> FALSE, SESSION_COOKIE |-> <<>>,
            USERNAME |-> <<>>, ACCESS_TOKEN |-> <<>>]
  /\ args \in [session_cookie : CookieArgs, username : UsernameArgs,
               access_token : TokenArgs]
  /\ client = NoClient
  /\ pc = "new"
  /\ trace = <<>>
  /\ last = NoCall
  /\ project = NoProject
  /\ steps = <<>>
  /\ exit = <<>>

New ==
  /\ pc = "new"
  /\ client' = P5APIClient(args.session_cookie, args.username,
                           args.access_token)
  /\ trace' = <<init_print(args.session_cookie, args.username,
                           args.access_token)>>
  /\ pc' = "ready"
  /\ UNCHANGED <<cfg, args, last, project, steps, exit>>

\* bookkeeping shared by the calls
Call(op, arg, net, o) ==
  /\ trace' = o.trace
  /\ last' = [op |-> op, arg |-> arg, net |-> net, result |-> o.result]
  /\ pc' = "returned"
  /\ UNCHANGED <<cfg, args, client, project, steps, exit>>

CallTestAuthentication ==
  /\ pc = "ready"
  /\ \E net \in Outcomes({BodyInvalid}) :
       Call("test_authentication", <<>>, net, test_authentication(client, net))

CallCreateSketch ==
  /\ pc = "ready"
  /\ \E net \in Outcomes(ProjectBodies) :
       Call("create_sketch", TEMPLATE_BASIC, net,
            create_sketch(client, TEMPLATE_BASIC, net))

CallGetProject ==
  /\ pc = "ready"
  /\ \E id \in ProjectIds, net \in Outcomes(ProjectBodies) :
       Call("get_project", id, net, get_project(client, id, net))

CallUpdateSketch ==
  /\ pc = "ready"
  /\ \E id \in ProjectIds, net \in Outcomes(ProjectBodies) :
       Call("update_sketch", id, net, update_sketch(client, id, run_updates, net))

CallDeleteSketch ==
  /\ pc = "ready"
  /\ \E id \in ProjectIds, net \in Outcomes({BodyInvalid}) :
       Call("delete_sketch", id, net, delete_sketch(client, id, net))

CallListUserSketches ==
  /\ pc = "ready"
  /\ \E net \in Outcomes(ListBodies(MaxSketches)) :
       Call("list_user_sketches", <<97, 108>>, net,
            list_user_sketches(client, <<97, 108>>, net))

\* the caller has the result and may call again
Again ==
  /\ pc = "returned"
  /\ pc' = "ready"
  /\ trace' = <<>>
  /\ last' = NoCall
  /\ UNCHANGED <<cfg, args, client, project, steps, exit>>

NextClient ==
  \/ New
  \/ Again
  \/ CallTestAuthentication
  \/ CallCreateSketch
  \/ CallGetProject
  \/ CallUpdateSketch
  \/ CallDeleteSketch
  \/ CallListUserSketches

SpecClient == InitClient /\ [][NextClient]_vars

(***************************************************************************)
(* Properties.                                                             *)
(***************************************************************************)
IsSend(e) == e.k = "send"

\* the requests dispatched so far, in order
Sends == SelectSeq(trace, IsSend)

\* the latest call received an HTTP response
GotResponse == last.op # "none" /\ last.net.ok

ClientOps ==
  {"test_authentication", "create_sketch", "get_project", "update_sketch",
   "delete_sketch", "list_user_sketches"}

\* C1: when test_authentication receives an HTTP 404 response it returns
\* the unknown outcome None (neither True nor False) and does not raise.
C1_AccessCheck404ReturnsUnknown ==
  (GotResponse /\ last.op = "test_authentication" /\ last.net.status = 404)
    => (last.result.kind = "return" /\ last.result.value = PyNone
        /\ PyNone # PyTrue /\ PyNone # PyFalse)

PlaceholderCredentials(c) ==
  IF c.USE_TOKEN_AUTH
  THEN c.USERNAME = USERNAME_PLACEHOLDER
         \/ c.ACCESS_TOKEN = ACCESS_TOKEN_PLACEHOLDER
  ELSE c.SESSION_COOKIE = SESSION_COOKIE_PLACEHOLDER

\* C3: with placeholder credentials of the active auth mode, main() ends
\* with exit status 1 before the client is constructed and before any HTTP
\* request is dispatched.
C3_PlaceholderRejected ==
  (PlaceholderCredentials(cfg) /\ pc # "main")
    => (/\ pc = "exited"
        /\ exit = <<1>>
        /\ ~client.constructed
        /\ Sends = <<>>
        /\ steps = <<>>)

C3_Witness ==
  /\ cfg.USE_TOKEN_AUTH
  /\ cfg.USERNAME # USERNAME_PLACEHOLDER
  /\ cfg.ACCESS_TOKEN = ACCESS_TOKEN_PLACEHOLDER
  /\ pc = "exited"
  /\ exit = <<1>>

\* C4: run_tests is fail-fast: a step that raises is the last step, no
\* request is dispatched after it, the process exits with status 1, and
\* exit status 0 means every executed step returned.
C4_FailFast ==
  /\ \A i \in 1..(Len(steps) - 1) : ~steps[i].raised
  /\ Len(Sends) = Len(steps)
  /\ (Len(steps) > 0 /\ steps[Len(steps)].raised)
       => (pc = "exited" /\ exit = <<1>>)
  /\ exit = <<0>> => \A i \in 1..Len(steps) : ~steps[i].raised
  /\ exit = <<1>> => (steps = <<>> \/ steps[Len(steps)].raised)

C4_Witness ==
  /\ Len(steps) = 3
  /\ steps[3].op = "get_project"
  /\ steps[3].raised
  /\ Len(Sends) = 3
  /\ exit = <<1>>

\* base64 decoding, written from RFC 4648 independently of b64encode
B64Index(ch) ==
  IF 65 <= ch /\ ch <= 90 THEN ch - 65
  ELSE IF 97 <= ch /\ ch <= 122 THEN ch - 71
  ELSE IF 48 <= ch /\ ch <= 57 THEN ch + 4
  ELSE IF ch = 43 THEN 62 ELSE 63

RECURSIVE B64Decode(_)
B64Decode(cs) ==
  IF Len(cs) < 4 THEN <<>>
  ELSE LET i1 == B64Index(cs[1])
           i2 == B64Index(cs[2])
           i3 == B64Index(cs[3])
           i4 == B64Index(cs[4])
           rest == B64Decode(SubSeq(cs, 5, Len(cs)))
       IN IF cs[3] = 61 THEN <<i1 * 4 + (i2 \div 16)>>
          ELSE IF cs[4] = 61
          THEN <<i1 * 4 + (i2 \div 16), (i2 % 16) * 16 + (i3 \div 4)>>
          ELSE <<i1 * 4 + (i2 \div 16), (i2 % 16) * 16 + (i3 \div 4),
                 (i3 % 4) * 64 + i4>> \o rest

\* the three credential configurations of the construction contract
TokenOnly ==
  Truthy(args.username) /\ Truthy(args.access_token)
    /\ ~Truthy(args.session_cookie)

CookieOnly ==
  Truthy(args.session_cookie) /\ ~Truthy(args.username)
    /\ ~Truthy(args.access_token)

NoCredentials ==
  ~Truthy(args.session_cookie) /\ ~Truthy(args.username)
    /\ ~Truthy(args.access_token)

HasAuthorization == "Authorization" \in DOMAIN client.headers

\* "Basic YWw6dGs=", the header of username "al" and token "tk"
BasicAlTk == <<66, 97, 115, 105, 99, 32, 89, 87, 119, 54, 100, 71, 115, 61>>

\* "Basic w6k6dA==", the header of username "é" and token "t"
BasicEacuteT == <<66, 97, 115, 105, 99, 32, 119, 54, 107, 54, 100, 65, 61, 61>>

\* C5: the constructed client carries exactly the specified authentication:
\* token-only an Authorization header 'Basic <base64(username:token)>' and
\* no cookie; cookie-only the cookie connect.sid scoped to editor.p5js.org
\* and no Authorization header; neither of them nothing, construction still
\* succeeding; always Content-Type application/json and the fixed User-Agent.
C5_ConstructionContract ==
  client.constructed =>
    /\ client.headers["Content-Type"] = "application/json"
    /\ client.headers["User-Agent"] = "p5-api-test-client-python/1.0"
    /\ DOMAIN client.headers \ {"Authorization"}
         = {"Content-Type", "User-Agent", "Accept-Encoding", "Accept",
            "Connection"}
    /\ TokenOnly =>
         /\ HasAuthorization
         /\ SubSeq(client.headers["Authorization"], 1, 6) = BASIC_PREFIX
         /\ B64Decode(SubSeq(client.headers["Authorization"], 7,
                             Len(client.headers["Authorization"])))
              = encode_utf8(args.username) \o <<58>>
                  \o encode_utf8(args.access_token)
         /\ Len(client.headers["Authorization"]) % 4 = 2
         /\ (args.username = <<97, 108>> /\ args.access_token = <<116, 107>>)
              => client.headers["Authorization"] = BasicAlTk
         /\ (args.username = <<233>> /\ args.access_token = <<116>>)
              => client.headers["Authorization"] = BasicEacuteT
         /\ client.cookies = {}
    /\ CookieOnly =>
         /\ ~HasAuthorization
         /\ client.cookies = {[name |-> "connect.sid",
                               value |-> args.session_cookie,
                               domain |-> "editor.p5js.org"]}
    /\ NoCredentials => (~HasAuthorization /\ client.cookies = {})

C5_Witness ==
  /\ client.constructed
  /\ TokenOnly
  /\ args.username = <<233>>
  /\ args.access_token = <<116>>
  /\ client.headers["Authorization"] = BasicEacuteT
  /\ client.cookies = {}

\* C6: get_project and update_sketch are dispatched only after create_sketch
\* returned, both with exactly the project id that call returned, and the
\* id never changes once create_sketch returned it.
C6_ProjectIdStable ==
  [][/\ (last'.op = "create_sketch" /\ last' # last
           /\ last'.result.kind = "return")
          => (project' = last'.net.body.val /\ "id" \in DOMAIN project')
     /\ (last'.op # "create_sketch" \/ last'.result.kind = "raise")
          => project' = project
     /\ \A i \in (Len(trace) + 1)..Len(trace') :
          (trace'[i].k = "send" /\ trace'[i].endpoint[1] = "/projects/")
            => (/\ project # NoProject
                /\ \E j \in 1..Len(steps) :
                     steps[j].op = "create_sketch" /\ ~steps[j].raised
                /\ trace'[i].endpoint = <<"/projects/", fstr(project.id)>>
                /\ project' = project)]_vars

C6_Witness ==
  /\ last.op = "update_sketch"
  /\ last.arg = JStr("p2")
  /\ project.id = JStr("p2")
  /\ Len(Sends) = 4
  /\ Sends[3].method = "GET"
  /\ Sends[3].endpoint = <<"/projects/", "p2">>
  /\ Sends[4].method = "PUT"
  /\ Sends[4].endpoint = <<"/projects/", "p2">>

\* C7: list_user_sketches returns the entries exactly as the server sent
\* them (same elements, order and length), also when there are more than
\* the five it displays.
C7_ListReturnedUnaltered ==
  (GotResponse /\ last.op = "list_user_sketches"
     /\ last.result.kind = "return")
    => (/\ last.net.body.kind = "list"
        /\ Len(last.result.value) = Len(last.net.body.val)
        /\ \A i \in 1..Len(last.net.body.val) :
             last.result.value[i] = last.net.body.val[i])

C7_Witness ==
  /\ GotResponse
  /\ last.op = "list_user_sketches"
  /\ last.result.kind = "return"
  /\ Len(last.result.value) > 5
  /\ last.result.value[1] # last.result.value[2]
  /\ \E i \in 1..Len(trace) :
       trace[i].k = "print" /\ trace[i].tag = "info"
         /\ trace[i].text = "... and more"

\* C8: every HTTP call of every client operation is framed: a progress line
\* naming its method and endpoint right before the request is dispatched,
\* and exactly one outcome line (status and reason, or the error) after it.
C8_EveryCallFramed ==
  \A i \in 1..Len(trace) :
    trace[i].k = "send" =>
      /\ i > 1
      /\ trace[i - 1].k = "print"
      /\ trace[i - 1].tag = "progress"
      /\ trace[i - 1].method = trace[i].method
      /\ trace[i - 1].endpoint = trace[i].endpoint
      /\ Cardinality({j \in (i + 1)..Len(trace) :
                        trace[j].k = "print"
                          /\ trace[j].tag \in {"outcome", "failed"}}) = 1

\* C9: no HTTP response to the access-check probe aborts the test sequence:
\* test_authentication returns and the driver goes on to create_sketch.
C9_AccessCheckNeverAborts ==
  (GotResponse /\ last.op = "test_authentication")
    => (/\ last.result.kind = "return"
        /\ last.result.value \in {PyTrue, PyFalse, PyNone}
        /\ pc = "create_sketch"
        /\ exit = <<>>
        /\ ENABLED RunCreateSketch)

C9_Witness ==
  /\ Len(steps) = 2
  /\ steps[1].op = "test_authentication"
  /\ steps[2].op = "create_sketch"
  /\ Len(Sends) = 2
  /\ Sends[2].method = "POST"
  /\ \E i \in 1..Len(trace) :
       trace[i].k = "print" /\ trace[i].tag = "outcome"
         /\ trace[i].status = 404
         /\ \E j \in (i + 1)..Len(trace) : trace[j].k = "send"

\* C10: credential mode is singular: never both an Authorization header
\* and a connect.sid cookie; token auth exactly when username and
\* access_token are both non-empty, cookie auth exactly when that does not
\* hold and session_cookie is non-empty.
C10_CredentialModeSingular ==
  client.constructed =>
    /\ ~(HasAuthorization /\ client.cookies # {})
    /\ HasAuthorization
         <=> (Truthy(args.username) /\ Truthy(args.access_token))
    /\ client.cookies # {}
         <=> (~(Truthy(args.username) /\ Truthy(args.access_token))
                /\ Truthy(args.session_cookie))
    /\ \A ck \in client.cookies :
         ck.name = "connect.sid" /\ ck.value = args.session_cookie

C10_Witness ==
  /\ client.constructed
  /\ Truthy(args.session_cookie)
  /\ Truthy(args.username)
  /\ Truthy(args.access_token)
  /\ HasAuthorization
  /\ client.cookies = {}

====
